---- MODULE Spec2Model ----
(***************************************************************************)
(* Model of app/log.py (setup_logging and its two processors), of the two  *)
(* entry modules that call it (app/main.py, app/tkq.py) and of the log     *)
(* calls and uncaught exceptions that run through what it configures.      *)
(*                                                                         *)
(* An event dict is an ordered mapping, modelled as a sequence of          *)
(* <<key, value>> pairs in insertion order (a Python dict keeps it, and    *)
(* the JSON renderer serialises in that order).                            *)
(***************************************************************************)
EXTENDS Integers, Sequences, FiniteSets, TLC

VARIABLES
    LOG_JSON_FORMAT,    \* log.py module global: render mode
    handlers,           \* logging.Logger.handlers, per logger name
    propagate,          \* logging.Logger.propagate, per logger name
    level,              \* logging.Logger.level, per logger name ("NOTSET" when unset)
    shared_processors,  \* the chain handed to structlog.configure and to the formatter
    excepthook,         \* every value assigned to sys.excepthook, the last is current
    setupCalls,         \* number of setup_logging() calls made in this process
    pc,                 \* "running" or "terminated"
    last,               \* the most recent log call or uncaught exception and its effects
    stderr              \* lines the most recent operation wrote to sys.stderr

vars == <<LOG_JSON_FORMAT, handlers, propagate, level, shared_processors,
          excepthook, setupCalls, pc, last, stderr>>

-----------------------------------------------------------------------------
(* Bounds *)

MaxSetup == 2
MaxOwnHandlers == 1
MaxOtherHooks == 1

-----------------------------------------------------------------------------
(* Ordered mapping *)

Has(ed, k) == \E i \in DOMAIN ed : ed[i][1] = k

Get(ed, k) == ed[CHOOSE i \in DOMAIN ed : ed[i][1] = k][2]

Put(ed, k, v) ==
    IF Has(ed, k)
    THEN [i \in DOMAIN ed |-> IF ed[i][1] = k THEN <<k, v>> ELSE ed[i]]
    ELSE Append(ed, <<k, v>>)

SetDefault(ed, k, v) == IF Has(ed, k) THEN ed ELSE Append(ed, <<k, v>>)

Pop(ed, k) == SelectSeq(ed, LAMBDA p : p[1] # k)

RECURSIVE Update(_, _)
Update(ed, pairs) ==
    IF pairs = <<>> THEN ed
    ELSE Update(Put(ed, Head(pairs)[1], Head(pairs)[2]), Tail(pairs))

RECURSIVE UpdateDefault(_, _)
UpdateDefault(ed, pairs) ==
    IF pairs = <<>> THEN ed
    ELSE UpdateDefault(SetDefault(ed, Head(pairs)[1], Head(pairs)[2]), Tail(pairs))

-----------------------------------------------------------------------------
(* Levels *)

LevelNames == <<"DEBUG", "INFO", "WARNING", "ERROR", "CRITICAL">>

LevelNo(name) ==
    IF name = "NOTSET" THEN 0
    ELSE 10 * (CHOOSE i \in DOMAIN LevelNames : LevelNames[i] = name)

MethodName(lvl) ==
    CASE lvl = "DEBUG" -> "debug"
      [] lvl = "INFO" -> "info"
      [] lvl = "WARNING" -> "warning"
      [] lvl = "ERROR" -> "error"
      [] lvl = "CRITICAL" -> "critical"

LOG_LEVEL == "INFO"

-----------------------------------------------------------------------------
(* Loggers *)

ModuleName == "app.log"

Uvicorn == <<"uvicorn", "uvicorn.error">>

Taskiq == <<"taskiq", "taskiq.worker", "taskiq.broker", "taskiq.scheduler">>

Silenced == {"uvicorn.access", "pymongo.topology"}

LoggerNames ==
    {"root", "app.main", ModuleName, "uvicorn", "uvicorn.error", "uvicorn.access",
     "pymongo.topology", "taskiq", "taskiq.worker", "taskiq.broker",
     "taskiq.scheduler"}

Parent(name) ==
    CASE name \in {"uvicorn.error", "uvicorn.access"} -> "uvicorn"
      [] name \in {"taskiq.worker", "taskiq.broker", "taskiq.scheduler"} -> "taskiq"
      [] OTHER -> "root"

RECURSIVE getEffectiveLevel(_)
getEffectiveLevel(name) ==
    IF level[name] # "NOTSET" THEN LevelNo(level[name])
    ELSE IF name = "root" THEN 0
    ELSE getEffectiveLevel(Parent(name))

isEnabledFor(name, lvl) == LevelNo(lvl) >= getEffectiveLevel(name)

RECURSIVE callHandlers(_)
callHandlers(name) ==
    handlers[name] \o
        (IF name = "root" \/ ~propagate[name] THEN <<>> ELSE callHandlers(Parent(name)))

-----------------------------------------------------------------------------
(* Processors.  Each takes the in-flight record of the stdlib logging call *)
(* (unused on the native path, where "_record" is not yet in the event     *)
(* dict), the logger, the method name and the event dict.                  *)

getpid == "4242"

Interpolate(event, args) ==
    IF event = "x %s" /\ args = "1" THEN "x 1" ELSE event

Decode(v) == IF v = "b'hi'" THEN "hi" ELSE v

FormatException(e) ==
    CASE e = "ValueError" -> "Traceback ... ValueError: boom"
      [] e = "KeyboardInterrupt" -> "Traceback ... KeyboardInterrupt"
      [] OTHER -> "Traceback ... Exception"

merge_contextvars(ctx, ed) == UpdateDefault(ed, ctx)

add_logger_name(logger, rec, ed) ==
    Put(ed, "logger", IF Has(ed, "_record") THEN rec.name ELSE logger)

_set_process_id(ed) == Put(ed, "process_id", getpid)

add_log_level(method, ed) ==
    Put(ed, "level",
        IF method = "warn" THEN "warning"
        ELSE IF method = "exception" THEN "error" ELSE method)

PositionalArgumentsFormatter(ed) ==
    IF Has(ed, "positional_args")
    THEN Pop(Put(ed, "event", Interpolate(Get(ed, "event"), Get(ed, "positional_args"))),
             "positional_args")
    ELSE ed

ExtraAdder(rec, ed) == IF Has(ed, "_record") THEN Update(ed, rec.extra) ELSE ed

_drop_color_message_key(ed) == Pop(ed, "color_message")

TimeStamper(now, ed) == Put(ed, "timestamp", now)

StackInfoRenderer(ed) ==
    IF Has(ed, "stack_info") THEN Put(Pop(ed, "stack_info"), "stack", "<stack>") ELSE ed

UnicodeDecoder(ed) == [i \in DOMAIN ed |-> <<ed[i][1], Decode(ed[i][2])>>]

CallsiteParameterAdder(site, ed) ==
    Put(Put(Put(ed, "filename", site[1]), "func_name", site[2]), "lineno", site[3])

format_exc_info(ed) ==
    IF Has(ed, "exc_info")
    THEN Put(Pop(ed, "exc_info"), "exception", FormatException(Get(ed, "exc_info")))
    ELSE ed

Processor(stage, env, method, ed) ==
    CASE stage = "merge_contextvars" -> merge_contextvars(env.ctx, ed)
      [] stage = "add_logger_name" -> add_logger_name(env.logger, env.rec, ed)
      [] stage = "_set_process_id" -> _set_process_id(ed)
      [] stage = "add_log_level" -> add_log_level(method, ed)
      [] stage = "PositionalArgumentsFormatter" -> PositionalArgumentsFormatter(ed)
      [] stage = "ExtraAdder" -> ExtraAdder(env.rec, ed)
      [] stage = "_drop_color_message_key" -> _drop_color_message_key(ed)
      [] stage = "TimeStamper" -> TimeStamper(env.now, ed)
      [] stage = "StackInfoRenderer" -> StackInfoRenderer(ed)
      [] stage = "UnicodeDecoder" -> UnicodeDecoder(ed)
      [] stage = "CallsiteParameterAdder" -> CallsiteParameterAdder(env.site, ed)
      [] stage = "format_exc_info" -> format_exc_info(ed)

RECURSIVE RunChain(_, _, _, _)
RunChain(chain, env, method, ed) ==
    IF chain = <<>> THEN ed
    ELSE RunChain(Tail(chain), env, method, Processor(Head(chain), env, method, ed))

SharedProcessorsAlwaysFormat(json) ==
    <<"merge_contextvars", "add_logger_name", "_set_process_id", "add_log_level",
      "PositionalArgumentsFormatter", "ExtraAdder", "_drop_color_message_key",
      "TimeStamper", "StackInfoRenderer", "UnicodeDecoder", "CallsiteParameterAdder",
      "format_exc_info">>

(* The list built at the top of setup_logging. *)
SharedProcessors(json) ==
    <<"merge_contextvars", "add_logger_name", "_set_process_id", "add_log_level",
      "PositionalArgumentsFormatter", "ExtraAdder", "_drop_color_message_key",
      "TimeStamper", "StackInfoRenderer", "UnicodeDecoder", "CallsiteParameterAdder">>
    \o (IF json THEN <<"format_exc_info">> ELSE <<>>)

-----------------------------------------------------------------------------
(* Renderers and the formatter's tail *)

remove_processors_meta(ed) == Pop(Pop(ed, "_record"), "_from_structlog")

JSONRenderer(ed) == ed

LevelStyle(lvl) ==
    CASE lvl = "debug" -> "CYAN"
      [] lvl = "info" -> "GREEN"
      [] lvl = "warning" -> "YELLOW"
      [] lvl = "error" -> "RED"
      [] lvl = "critical" -> "RED+BRIGHT"
      [] OTHER -> ""

SortedKeys ==
    <<"color_message", "filename", "func_name", "lineno", "payload", "positional_args",
      "process_id", "request_id", "stack_info", "value">>

Part(ed, k) == IF Has(ed, k) THEN <<<<k, Get(ed, k)>>>> ELSE <<>>

RECURSIVE Sorted(_, _)
Sorted(ed, keys) ==
    IF keys = <<>> THEN <<>> ELSE Part(ed, Head(keys)) \o Sorted(ed, Tail(keys))

ConsoleRenderer(ed) ==
    Part(ed, "timestamp")
    \o (IF Has(ed, "level")
        THEN <<<<"level_style", LevelStyle(Get(ed, "level"))>>, <<"level", Get(ed, "level")>>>>
        ELSE <<>>)
    \o Part(ed, "event")
    \o Part(ed, "logger")
    \o Sorted(ed, SortedKeys)
    \o Part(ed, "stack")
    \o (IF Has(ed, "exception") THEN Part(ed, "exception")
        ELSE IF Has(ed, "exc_info")
             THEN <<<<"exception", FormatException(Get(ed, "exc_info"))>>>>
             ELSE <<>>)

log_renderer(json, ed) == IF json THEN JSONRenderer(ed) ELSE ConsoleRenderer(ed)

-----------------------------------------------------------------------------
(* Inputs of a log call *)

Events == {<<"x", "">>, <<"x %s", "1">>}

FieldSets ==
    {<<>>,
     <<<<"value", "1">>>>,
     <<<<"process_id", "7">>>>,
     <<<<"request_id", "B">>, <<"color_message", "c">>, <<"payload", "b'hi'">>>>}

Contexts == {<<>>, <<<<"request_id", "A">>>>}

Instants == {"t1", "t2"}

UserSite == <<"task_test.py", "add_one", "10">>

HookSite == <<"log.py", "_handle_exception", "171">>

Calls ==
    {[event |-> e[1], args |-> e[2], fields |-> f, ctx |-> c, now |-> t,
      exc_info |-> "", site |-> UserSite] :
        e \in Events, f \in FieldSets, c \in Contexts, t \in Instants}

PlainCall ==
    [event |-> "x", args |-> "", fields |-> <<>>, ctx |-> <<>>, now |-> "t1",
     exc_info |-> "", site |-> UserSite]

Exceptions == {"ValueError", "KeyboardInterrupt", "SubInterrupt"}

IsKeyboardInterrupt(exc) == exc \in {"KeyboardInterrupt", "SubInterrupt"}

-----------------------------------------------------------------------------
(* The two ingestion paths *)

PipelineHandler(n) == [kind |-> "pipeline", id |-> n]

OwnHandler(name) == [kind |-> "own", id |-> 0]

Pipelines(hs) == SelectSeq(hs, LAMBDA h : h.kind = "pipeline")

Owns(hs) == SelectSeq(hs, LAMBDA h : h.kind = "own")

Line(src, body) == [src |-> src, body |-> body]

(* BoundLoggerBase._process_event: context, then keyword arguments, then event. *)
NativeEventDict(call) ==
    Put(Update(<<>>, call.fields
                     \o (IF call.args # "" THEN <<<<"positional_args", call.args>>>>
                         ELSE <<>>)),
        "event", call.event)

NativeEnv(name, call) ==
    [logger |-> name, rec |-> [name |-> name, extra |-> <<>>],
     ctx |-> call.ctx, now |-> call.now, site |-> call.site]

(* ProcessorFormatter.format on a record that wrap_for_formatter produced. *)
FormatStructlog(json, ed) ==
    log_renderer(json,
        remove_processors_meta(
            Put(Put(ed, "_record", "<LogRecord>"), "_from_structlog", "True")))

(* ProcessorFormatter.format on a record of the stdlib logging API. *)
ForeignEventDict(call) ==
    <<<<"event", Interpolate(call.event, call.args)>>, <<"_record", "<LogRecord>">>,
      <<"_from_structlog", "False">>>>
    \o (IF call.exc_info # "" THEN <<<<"exc_info", call.exc_info>>>> ELSE <<>>)

ForeignEnv(name, call) ==
    [logger |-> "None", rec |-> [name |-> name, extra |-> call.fields],
     ctx |-> call.ctx, now |-> call.now, site |-> call.site]

FormatForeign(json, chain, name, lvl, call) ==
    log_renderer(json,
        remove_processors_meta(
            RunChain(chain, ForeignEnv(name, call), MethodName(lvl),
                     ForeignEventDict(call))))

FormatNative(json, chain, name, lvl, call) ==
    FormatStructlog(json,
        RunChain(chain, NativeEnv(name, call), MethodName(lvl), NativeEventDict(call)))

(* logging.lastResort: used by Logger.callHandlers when no handler was found. *)
LastResort(found, lvl, text) ==
    IF found = 0 /\ LevelNo(lvl) >= LevelNo("WARNING")
    THEN <<Line("lastResort", <<<<"message", text>>>>)>>
    ELSE <<>>

Ran(chain, failAt) == IF failAt = 0 THEN chain ELSE SubSeq(chain, 1, failAt)

NoCall ==
    [event |-> "", args |-> "", fields |-> <<>>, ctx |-> <<>>, now |-> "t1",
     exc_info |-> "", site |-> UserSite]

NoOp ==
    [op |-> "none", name |-> "root", level |-> "NOTSET", call |-> NoCall, failAt |-> 0,
     chainRuns |-> 0, ran |-> <<>>, raised |-> FALSE, own |-> 0, delegated |-> ""]

(* A call on a structlog bound logger: the chain runs in the caller, then the *)
(* stdlib logger decides on the level and hands the record to the handlers.   *)
NativeResult(name, lvl, call, failAt) ==
    LET hs == IF failAt = 0 /\ isEnabledFor(name, lvl) THEN callHandlers(name) ELSE <<>>
    IN [last |-> [op |-> "native", name |-> name, level |-> lvl, call |-> call,
                  failAt |-> failAt, chainRuns |-> 1,
                  ran |-> Ran(shared_processors, failAt),
                  raised |-> failAt # 0, own |-> Len(Owns(hs)), delegated |-> ""],
        out |-> IF failAt # 0 \/ ~isEnabledFor(name, lvl) THEN <<>>
                ELSE [i \in DOMAIN Pipelines(hs) |->
                        Line("pipeline",
                             FormatNative(LOG_JSON_FORMAT, shared_processors,
                                          name, lvl, call))]
                     \o LastResort(Len(hs), lvl, "<event_dict>")]

(* A call on a stdlib logger: the level is decided first, the chain runs in   *)
(* each pipeline handler's formatter; Handler.emit catches what format raises *)
(* and reports it with Handler.handleError.                                   *)
ForeignResult(name, lvl, call, failAt) ==
    LET hs == IF isEnabledFor(name, lvl) THEN callHandlers(name) ELSE <<>>
        n == Len(Pipelines(hs))
    IN [last |-> [op |-> "foreign", name |-> name, level |-> lvl, call |-> call,
                  failAt |-> failAt, chainRuns |-> n,
                  ran |-> IF n = 0 THEN <<>> ELSE Ran(shared_processors, failAt),
                  raised |-> FALSE, own |-> Len(Owns(hs)), delegated |-> ""],
        out |-> IF ~isEnabledFor(name, lvl) THEN <<>>
                ELSE [i \in 1..n |->
                        IF failAt # 0
                        THEN Line("handleError", <<<<"message", "--- Logging error ---">>>>)
                        ELSE Line("pipeline",
                                  FormatForeign(LOG_JSON_FORMAT, shared_processors,
                                                name, lvl, call))]
                     \o LastResort(Len(hs), lvl, Interpolate(call.event, call.args))]

-----------------------------------------------------------------------------
(* setup_logging *)

RECURSIVE ClearHandlers(_, _)
ClearHandlers(hs, names) ==
    IF names = <<>> THEN hs
    ELSE ClearHandlers([hs EXCEPT ![Head(names)] = <<>>], Tail(names))

RECURSIVE SetPropagate(_, _, _)
SetPropagate(pr, names, value) ==
    IF names = <<>> THEN pr
    ELSE SetPropagate([pr EXCEPT ![Head(names)] = value], Tail(names), value)

(* root_logger.addHandler(handler), then the handlers.clear() calls. *)
SetupHandlers(hs, n) ==
    ClearHandlers([hs EXCEPT !["root"] = Append(@, PipelineHandler(n))],
                  Uvicorn \o <<"uvicorn.access", "pymongo.topology">>)

(* The taskiq loop: each iteration fetches logging.getLogger(__name__), the *)
(* logger of app/log.py itself, and sets its propagate to False.            *)
TaskiqLoop(pr) == SetPropagate(pr, [i \in DOMAIN Taskiq |-> ModuleName], FALSE)

SetupPropagate(pr) ==
    TaskiqLoop(
        SetPropagate(SetPropagate(pr, Uvicorn, TRUE),
                     <<"uvicorn.access", "pymongo.topology">>, FALSE))

SetupLevelDebug(lv) == [lv EXCEPT !["root"] = "DEBUG"]

(* root_logger.setLevel(LOG_LEVEL.upper()) *)
SetupLevel(lv) == [lv EXCEPT !["root"] = LOG_LEVEL]

(* sys.excepthook = _handle_exception *)
InstallHook(hooks) == Append(hooks, "_handle_exception")

setup_logging ==
    /\ pc = "running"
    /\ setupCalls < MaxSetup
    /\ shared_processors' = SharedProcessors(LOG_JSON_FORMAT)
    /\ handlers' = SetupHandlers(handlers, setupCalls + 1)
    /\ level' = SetupLevel(level)
    /\ propagate' = SetupPropagate(propagate)
    /\ excepthook' = InstallHook(excepthook)
    /\ setupCalls' = setupCalls + 1
    /\ last' = NoOp
    /\ stderr' = <<>>
    /\ UNCHANGED <<LOG_JSON_FORMAT, pc>>

-----------------------------------------------------------------------------
(* What other components of the process do to the same global state *)

Subsystems == LoggerNames \ {"root", "app.main", ModuleName}

OwnCount ==
    Cardinality({n \in LoggerNames : Len(Owns(handlers[n])) > 0})

(* A subsystem (uvicorn, taskiq, ...) configures its own logger before the *)
(* application initialises logging.                                        *)
SubsystemAttach(name, prop) ==
    /\ pc = "running"
    /\ setupCalls = 0
    /\ OwnCount < MaxOwnHandlers
    /\ handlers[name] = <<>>
    /\ handlers' = [handlers EXCEPT ![name] = <<OwnHandler(name)>>]
    /\ propagate' = [propagate EXCEPT ![name] = prop]
    /\ UNCHANGED <<LOG_JSON_FORMAT, level, shared_processors, excepthook, setupCalls,
                   pc, last, stderr>>

OtherHooks == Len(SelectSeq(excepthook, LAMBDA h : h = "other"))

(* Another component assigns its own hook to sys.excepthook. *)
InstallOtherHook ==
    /\ pc = "running"
    /\ OtherHooks < MaxOtherHooks
    /\ excepthook' = Append(excepthook, "other")
    /\ last' = NoOp
    /\ stderr' = <<>>
    /\ UNCHANGED <<LOG_JSON_FORMAT, handlers, propagate, level, shared_processors,
                   setupCalls, pc>>

-----------------------------------------------------------------------------
(* Log calls *)

FailPoints == 0..Len(shared_processors)

LogNative(name, lvl, call, failAt) ==
    /\ pc = "running"
    /\ setupCalls >= 1
    /\ failAt \in FailPoints
    /\ LET r == NativeResult(name, lvl, call, failAt)
       IN /\ last' = r.last
          /\ stderr' = r.out
    /\ UNCHANGED <<LOG_JSON_FORMAT, handlers, propagate, level, shared_processors,
                   excepthook, setupCalls, pc>>

LogForeign(name, lvl, call, failAt) ==
    /\ pc = "running"
    /\ setupCalls >= 1
    /\ failAt \in FailPoints
    /\ LET r == ForeignResult(name, lvl, call, failAt)
       IN /\ last' = r.last
          /\ stderr' = r.out
    /\ UNCHANGED <<LOG_JSON_FORMAT, handlers, propagate, level, shared_processors,
                   excepthook, setupCalls, pc>>

-----------------------------------------------------------------------------
(* Uncaught exceptions *)

CurrentHook == excepthook[Len(excepthook)]

DefaultHook(exc) == <<Line("traceback", <<<<"exception", FormatException(exc)>>>>)>>

CriticalCall(exc) ==
    [event |-> "Uncaught exception", args |-> "", fields |-> <<>>, ctx |-> <<>>,
     now |-> "t1", exc_info |-> exc, site |-> HookSite]

(* _handle_exception(exc_type, exc_value, exc_traceback) *)
_handle_exception(exc) ==
    IF IsKeyboardInterrupt(exc)
    THEN [last |-> [NoOp EXCEPT !.op = "except", !.call = CriticalCall(exc),
                                !.delegated = "sys.__excepthook__"],
          out |-> DefaultHook(exc)]
    ELSE [last |-> [ForeignResult("root", "CRITICAL", CriticalCall(exc), 0).last
                        EXCEPT !.op = "except"],
          out |-> ForeignResult("root", "CRITICAL", CriticalCall(exc), 0).out]

(* An exception reaches the top of the stack: the interpreter calls           *)
(* sys.excepthook and exits.                                                  *)
Uncaught(exc) ==
    /\ pc = "running"
    /\ LET r == CASE CurrentHook = "_handle_exception" -> _handle_exception(exc)
                  [] CurrentHook = "sys.__excepthook__" ->
                        [last |-> [NoOp EXCEPT !.op = "except", !.call = CriticalCall(exc)],
                         out |-> DefaultHook(exc)]
                  [] OTHER ->
                        [last |-> [NoOp EXCEPT !.op = "except", !.call = CriticalCall(exc)],
                         out |-> <<>>]
       IN /\ last' = r.last
          /\ stderr' = r.out
    /\ pc' = "terminated"
    /\ UNCHANGED <<LOG_JSON_FORMAT, handlers, propagate, level, shared_processors,
                   excepthook, setupCalls>>

-----------------------------------------------------------------------------
(* Specifications *)

Start(modes) ==
    /\ LOG_JSON_FORMAT \in modes
    /\ handlers = [n \in LoggerNames |-> <<>>]
    /\ propagate = [n \in LoggerNames |-> TRUE]
    /\ level = [n \in LoggerNames |-> IF n = "root" THEN "WARNING" ELSE "NOTSET"]
    /\ shared_processors = <<>>
    /\ excepthook = <<"sys.__excepthook__">>
    /\ setupCalls = 0
    /\ pc = "running"
    /\ last = NoOp
    /\ stderr = <<>>

(* The process as the repository configures it: LOG_JSON_FORMAT = False. *)
Init == Start({FALSE})

AllLevels == {LevelNames[i] : i \in DOMAIN LevelNames}

Next ==
    \/ setup_logging
    \/ \E name \in Subsystems, prop \in BOOLEAN : SubsystemAttach(name, prop)
    \/ InstallOtherHook
    \/ \E name \in LoggerNames, lvl \in AllLevels : LogNative(name, lvl, PlainCall, 0)
    \/ \E name \in LoggerNames, lvl \in AllLevels : LogForeign(name, lvl, PlainCall, 0)
    \/ \E exc \in Exceptions : Uncaught(exc)

Spec == Init /\ [][Next]_vars

(* The pipeline alone, in both render modes, over the richer call inputs. *)
InitChain == Start(BOOLEAN)

ChainLoggers == {"app.main"}

ChainLevels == {"DEBUG", "INFO"}

NextChain ==
    \/ setup_logging
    \/ \E name \in ChainLoggers, lvl \in ChainLevels, call \in Calls :
            LogNative(name, lvl, call, 0)
    \/ \E name \in ChainLoggers, lvl \in ChainLevels, call \in Calls :
            LogForeign(name, lvl, call, 0)
    \/ \E name \in ChainLoggers, lvl \in ChainLevels, failAt \in FailPoints \ {0} :
            LogNative(name, lvl, PlainCall, failAt)
    \/ \E name \in ChainLoggers, lvl \in ChainLevels, failAt \in FailPoints \ {0} :
            LogForeign(name, lvl, PlainCall, failAt)

SpecChain == InitChain /\ [][NextChain]_vars

(* The same pipeline steps in the render mode the repository sets. *)
SpecConsole == Init /\ [][NextChain]_vars

-----------------------------------------------------------------------------
(* Properties *)

PipelineLines == SelectSeq(stderr, LAMBDA l : l.src = "pipeline")

FallbackLines == SelectSeq(stderr, LAMBDA l : l.src = "handleError")

IsLogCall == last.op \in {"native", "foreign"}

BelowMinimum == LevelNo(last.level) < LevelNo(LOG_LEVEL)

Redirected == {Uvicorn[i] : i \in DOMAIN Uvicorn} \cup {Taskiq[i] : i \in DOMAIN Taskiq}

(* C1: after any number n >= 1 of setup_logging() calls the root logger    *)
(* carries exactly one pipeline handler, and one log call that reaches the *)
(* root writes exactly one rendered line to the sink.                      *)
C1_IdempotentInit ==
    setupCalls >= 1 =>
        /\ Len(Pipelines(handlers["root"])) = 1
        /\ (IsLogCall /\ last.name = "root" /\ ~BelowMinimum => Len(PipelineLines) = 1)

(* C2: an uncaught exception other than the user interrupt, handled by the *)
(* installed hook, puts exactly one CRITICAL record with the exception's   *)
(* trace on the sink, and the process then terminates.                     *)
C2_OneCriticalRecord ==
    (last.op = "except" /\ CurrentHook = "_handle_exception"
        /\ ~IsKeyboardInterrupt(last.call.exc_info)) =>
        /\ Len(PipelineLines) = 1
        /\ \A i \in DOMAIN PipelineLines :
              /\ Get(PipelineLines[i].body, "level") = "critical"
              /\ Get(PipelineLines[i].body, "exception")
                    = FormatException(last.call.exc_info)
        /\ pc = "terminated"

(* What the hook h ends up doing with a user interrupt handed to it. *)
InterruptBehaviour(h) == IF h = "_handle_exception" THEN "sys.__excepthook__" ELSE h

(* C3: on the user interrupt the installed hook writes no record and hands *)
(* the exception to the hook that was active immediately before it was     *)
(* installed, whatever hooks were installed earlier.                       *)
C3_InterruptDelegatesToPrevious ==
    (last.op = "except" /\ CurrentHook = "_handle_exception"
        /\ IsKeyboardInterrupt(last.call.exc_info)) =>
        /\ PipelineLines = <<>>
        /\ last.delegated = InterruptBehaviour(excepthook[Len(excepthook) - 1])

(* C4: after initialization a record logged against a logger with          *)
(* propagate_to_root = false (uvicorn.access, pymongo.topology) writes     *)
(* nothing to the sink stream, at any level, the fallback handler included. *)
C4_SilencedWritesNothing ==
    (IsLogCall /\ last.name \in Silenced) => stderr = <<>>

(* C5: after initialization every redirected subtree (uvicorn,             *)
(* uvicorn.error, taskiq, taskiq.worker, taskiq.broker, taskiq.scheduler)  *)
(* has no handler of its own and propagates, so a record at or above the   *)
(* minimum level is rendered by the root pipeline and by no handler of    *)
(* its own (how often the root pipeline renders it is the subject of C1).  *)
C5_RedirectedSubtrees ==
    setupCalls >= 1 =>
        /\ \A n \in Redirected : handlers[n] = <<>> /\ propagate[n]
        /\ (IsLogCall /\ last.name \in Redirected /\ ~BelowMinimum =>
                last.own = 0 /\ Len(PipelineLines) >= 1)

(* C10: setup_logging() leaves the loggers outside the policy table alone: *)
(* the application's own loggers (app.main, app.log) keep propagate = true *)
(* and their handlers, so their records still reach the sink.              *)
C10_OtherLoggersUntouched ==
    setupCalls >= 1 =>
        /\ \A n \in {"app.main", ModuleName} : propagate[n] /\ handlers[n] = <<>>
        /\ (IsLogCall /\ last.name \in {"app.main", ModuleName} /\ ~BelowMinimum =>
                Len(PipelineLines) >= 1)

Strip(body) == Pop(body, "timestamp")

(* The rendering of the last call's inputs by the path it did not take, *)
(* at the instant t.                                                     *)
OtherPath(t) ==
    IF last.op = "native"
    THEN FormatForeign(LOG_JSON_FORMAT, shared_processors, last.name, last.level,
                       [last.call EXCEPT !.now = t])
    ELSE FormatNative(LOG_JSON_FORMAT, shared_processors, last.name, last.level,
                      [last.call EXCEPT !.now = t])

(* C6: the native and the foreign path run the same chain exactly once per *)
(* record and the same tail, so one field set and level renders the same   *)
(* output through either path, the timestamp aside.                        *)
C6_PathsRenderAlike ==
    (IsLogCall /\ last.failAt = 0 /\ PipelineLines # <<>>) =>
        /\ last.chainRuns = 1
        /\ \A i \in DOMAIN PipelineLines, t \in Instants :
              Strip(PipelineLines[i].body) = Strip(OtherPath(t))

(* C7: a log call below the minimum level, on either path, is filtered     *)
(* before any processor runs: no chain stage executes and nothing is       *)
(* written to the sink.                                                    *)
C7_FilteredBeforeChain ==
    (IsLogCall /\ BelowMinimum) =>
        last.chainRuns = 0 /\ last.ran = <<>> /\ stderr = <<>>

(* C7 as amended: a log call below the minimum level writes nothing to the *)
(* sink on either path; on the foreign path no chain stage runs for it, on *)
(* the native path the chain runs (up to a stage that raises) before the   *)
(* stdlib logger's level check discards the record.                        *)
C7_FilteredRecordWritesNothing ==
    (IsLogCall /\ BelowMinimum) =>
        /\ stderr = <<>>
        /\ last.own = 0
        /\ (last.op = "foreign" => last.chainRuns = 0 /\ last.ran = <<>>)
        /\ (last.op = "native" =>
                last.chainRuns = 1 /\ last.ran = Ran(shared_processors, last.failAt))

C7_Witness ==
    /\ last.op = "native"
    /\ last.level = "DEBUG"
    /\ last.failAt = 0
    /\ Len(last.ran) = Len(shared_processors)
    /\ Len(Pipelines(handlers["root"])) >= 1
    /\ stderr = <<>>

(* C8: when a processor raises while handling a record, on either path,    *)
(* the record is dropped, exactly one fallback diagnostic goes straight to *)
(* the sink, and the error does not reach the caller of the log operation. *)
C8_ProcessorFailureContained ==
    (IsLogCall /\ last.failAt # 0 /\ last.chainRuns >= 1) =>
        /\ PipelineLines = <<>>
        /\ Len(FallbackLines) = 1
        /\ ~last.raised

RequiredOrder ==
    <<"merge_contextvars", "add_logger_name", "_set_process_id", "add_log_level",
      "PositionalArgumentsFormatter", "ExtraAdder", "_drop_color_message_key",
      "TimeStamper", "StackInfoRenderer", "UnicodeDecoder", "CallsiteParameterAdder">>

(* C9: the chain built at initialization runs context merge first, then    *)
(* logger name, process id, level, argument folding, color_message         *)
(* removal, timestamp, stack info, unicode decoding and call-site          *)
(* metadata, with exception pre-formatting last exactly in JSON mode; a    *)
(* record that is not dropped runs every stage in that order, a per-call   *)
(* field overrides the context value of the same name, and color_message   *)
(* never reaches the output.                                               *)
C9_ChainOrder ==
    setupCalls >= 1 =>
        /\ SubSeq(shared_processors, 1, Len(RequiredOrder)) = RequiredOrder
        /\ Len(shared_processors) = Len(RequiredOrder) + (IF LOG_JSON_FORMAT THEN 1 ELSE 0)
        /\ (LOG_JSON_FORMAT =>
                shared_processors[Len(shared_processors)] = "format_exc_info")
        /\ (IsLogCall /\ last.failAt = 0 /\ last.chainRuns >= 1 =>
                last.ran = shared_processors)
        /\ \A i \in DOMAIN PipelineLines :
              LET body == PipelineLines[i].body
              IN /\ ~Has(body, "color_message")
                 /\ (Has(last.call.fields, "request_id") =>
                        Get(body, "request_id") = Get(last.call.fields, "request_id"))
                 /\ (~Has(last.call.fields, "request_id")
                        /\ Has(last.call.ctx, "request_id") =>
                        Get(body, "request_id") = Get(last.call.ctx, "request_id"))

C9_Witness ==
    /\ LOG_JSON_FORMAT
    /\ last.op = "native"
    /\ Has(last.call.fields, "request_id")
    /\ Has(last.call.ctx, "request_id")
    /\ Len(last.ran) = Len(RequiredOrder) + 1
    /\ PipelineLines # <<>>

====
